---- MODULE Spec2Model ----
(***************************************************************************)
(* Model of emulated_hue/controllers/devices.py: the Device hierarchy      *)
(* (OnOffDevice .. RGBWDevice), the three DeviceState slots and their      *)
(* merge, the throttle, and the memoising factory async_get_device.        *)
(*                                                                         *)
(* Conventions.                                                            *)
(*  - A Python value that may be None is an option: <<>> is None and <<v>> *)
(*    is the value v.                                                      *)
(*  - A quantity the code keeps in seconds (timestamps, transition times)  *)
(*    is kept here as the integer number of milliseconds, so x seconds is  *)
(*    the integer 1000*x; a quantity the code keeps in milliseconds        *)
(*    (throttle_ms, transition_ms) is the integer itself.  The code's      *)
(*    "ms / 1000" is therefore the identity on the representation and a    *)
(*    comparison of milliseconds with seconds scales the left side.        *)
(*  - An await is a suspension point: the code up to the await is one      *)
(*    step, the code after it another, and other tasks may run between.    *)
(***************************************************************************)
EXTENDS Integers, Sequences, FiniteSets, TLC

VARIABLES
    now,        \* datetime.now().timestamp(), in milliseconds
    modes,      \* the entity's supported_color_modes at Home Assistant
    devices,    \* the Device objects constructed so far, by order of construction
    cache,      \* __device_cache[entity_id]: None or the index of a Device
    sched,      \* the add_scheduler registrations, one Device index for each
    callers,    \* the async_get_device calls: position and locals of each
    rpc,        \* per Device: position of its scheduled async_update_state task
    epc,        \* per Device: position of its async_execute task
    storage,    \* the value last written by async_set_storage_value("lights", ..)
    nfetch,     \* number of async_get_entity_state calls made by async_get_device
    op,         \* the last step: <<the method called, or "resumed" for a return
                \* from an await, or the name of the await that raised; the
                \* Device or caller>>
    hist        \* what has been observed of the first Device's past (Monitor)

vars == <<now, modes, devices, cache, sched, callers, rpc, epc, storage,
          nfetch, op, hist>>

(***************************************************************************)
(* Bounds of the model.                                                    *)
(***************************************************************************)
\* the clock advances in steps of TickMs, up to MaxTicks steps
TickMs == 500
MaxTicks == 3
\* concurrent async_get_device calls in the factory specification
NCallers == 2
\* the steps of the clock in the throttle specification
MaxClockTicks == 5

None == <<>>
Some(v) == <<v>>

(***************************************************************************)
(* models.DeviceState and models.ALL_STATES.                               *)
(***************************************************************************)
ALL_STATES ==
    {"power_state", "reachable", "transition_seconds", "brightness",
     "color_temp", "hue_saturation", "xy_color", "rgb_color", "flash",
     "effect"}

\* DeviceState(power_state=p, ...): the named fields set, the others absent
DeviceState(fields) ==
    [f \in ALL_STATES |-> IF f \in DOMAIN fields THEN fields[f] ELSE None]

\* DeviceState.__eq__: equal iff every field compares equal; a DeviceState
\* is not equal to None
StateEq(a, b) ==
    /\ a # None
    /\ b # None
    /\ \A f \in ALL_STATES : a[1][f] = b[1][f]

\* utils.clamp
clamp(v, lo, hi) == IF v < lo THEN lo ELSE IF v > hi THEN hi ELSE v

(***************************************************************************)
(* const.                                                                  *)
(***************************************************************************)
\* const.DEFAULT_TRANSITION_SECONDS (0.4 s), in milliseconds
DEFAULT_TRANSITION_SECONDS == 400
HASS_STATE_ON == "on"
HASS_STATE_UNAVAILABLE == "unavailable"

\* the const.HASS_COLOR_MODE_* tags
ModeTags == {"hs", "xy", "rgb", "rgbw", "rgbww", "color_temp", "white",
             "brightness", "onoff"}

(***************************************************************************)
(* Device-type inference (async_get_device, the if/elif chain).            *)
(***************************************************************************)
\* InferKind with "white" missing from the second list of the first test
InferKind_white_dropped(color_modes) ==
    IF (\E m \in color_modes : m \in {"hs", "xy", "rgb", "rgbw", "rgbww"})
       /\ (\E m \in color_modes : m \in {"color_temp", "rgbw", "rgbww"})
    THEN "RGBWDevice"
    ELSE IF \E m \in color_modes : m \in {"hs", "xy", "rgb"}
    THEN "RGBDevice"
    ELSE IF "color_temp" \in color_modes
    THEN "CTDevice"
    ELSE IF "brightness" \in color_modes
    THEN "BrightnessDevice"
    ELSE "OnOffDevice"

InferKind(color_modes) ==
    IF (\E m \in color_modes : m \in {"hs", "xy", "rgb", "rgbw", "rgbww"})
       /\ (\E m \in color_modes : m \in {"color_temp", "rgbw", "rgbww", "white"})
    THEN "RGBWDevice"
    ELSE IF \E m \in color_modes : m \in {"hs", "xy", "rgb"}
    THEN "RGBDevice"
    ELSE IF "color_temp" \in color_modes
    THEN "CTDevice"
    ELSE IF "brightness" \in color_modes
    THEN "BrightnessDevice"
    ELSE "OnOffDevice"

(***************************************************************************)
(* OnOffDevice and its subclasses.  A Device is a record of the fields     *)
(* __init__ sets; a method is an operator from the Device before the call  *)
(* to the Device after it.                                                 *)
(***************************************************************************)
Kinds == {"OnOffDevice", "BrightnessDevice", "CTDevice", "RGBDevice",
          "RGBWDevice"}

\* which classes are among the bases of a class (the class itself included)
IsBrightness(kind) == kind # "OnOffDevice"
IsCT(kind) == kind \in {"CTDevice", "RGBWDevice"}
IsRGB(kind) == kind \in {"RGBDevice", "RGBWDevice"}

\* OnOffDevice.__init__ from line 49 on; config.get("throttle") is None
\* makes line 52 raise TypeError, so the Device exists only otherwise
InitRaises(config) == config.throttle = None

NewDevice(kind, config, hass_state_dict, t) ==
    [kind |-> kind,
     hass_state_dict |-> hass_state_dict,
     config |-> config,
     throttle_ms |-> config.throttle,
     last_update |-> t,
     default_transition |->
        IF config.throttle[1] * 1000 > DEFAULT_TRANSITION_SECONDS
        THEN config.throttle[1]
        ELSE DEFAULT_TRANSITION_SECONDS,
     hass_state |-> None,
     control_state |-> None,
     config_state |-> None]

\* self._config.get("hass_state", {}).get(state, None)
SavedValue(config, f) ==
    IF config.hass_state = None THEN None ELSE config.hass_state[1][f]

\* BestValue taking the pending command before the platform state
BestValue_command_first(dv, f) ==
    IF dv.control_state # None /\ dv.control_state[1][f] # None
    THEN dv.control_state[1][f]
    ELSE IF dv.hass_state # None /\ dv.hass_state[1][f] # None
    THEN dv.hass_state[1][f]
    ELSE SavedValue(dv.config, f)

\* _async_update_config_states up to its await: the merge
BestValue(dv, f) ==
    IF dv.hass_state # None /\ dv.hass_state[1][f] # None
    THEN dv.hass_state[1][f]
    ELSE IF dv.control_state # None /\ dv.control_state[1][f] # None
    THEN dv.control_state[1][f]
    ELSE SavedValue(dv.config, f)

\* update_config_states persisting the effective state of before the merge
update_config_states_saves_previous(dv) ==
    LET save_state == [f \in ALL_STATES |-> BestValue(dv, f)]
    IN  [dv EXCEPT !.config = [@ EXCEPT !.hass_state = dv.config_state],
                   !.config_state = Some(save_state)]

update_config_states(dv) ==
    LET save_state == [f \in ALL_STATES |-> BestValue(dv, f)]
    IN  [dv EXCEPT !.config = [@ EXCEPT !.hass_state = Some(save_state)],
                   !.config_state = Some(save_state)]

\* self._hass_state_dict.get(const.HASS_ATTR, {}).get(name)
Attr(dv, name) == dv.hass_state_dict.attributes[name]

\* OnOffDevice._update_device_state
OnOff_update_device_state(dv, full_update) ==
    IF full_update
    THEN [dv EXCEPT !.hass_state = Some(DeviceState(
            [power_state |-> Some(dv.hass_state_dict.state = HASS_STATE_ON),
             reachable |->
                Some(dv.hass_state_dict.state # HASS_STATE_UNAVAILABLE)]))]
    ELSE dv

\* BrightnessDevice._update_device_state
Brightness_update_device_state(dv, full_update) ==
    LET d1 == OnOff_update_device_state(dv, full_update)
    IN  [d1 EXCEPT !.hass_state[1].brightness = Attr(d1, "brightness")]

\* RGBDevice._update_device_state
RGB_update_device_state(dv, full_update) ==
    LET d1 == Brightness_update_device_state(dv, full_update)
    IN  [d1 EXCEPT !.hass_state[1].hue_saturation = Attr(d1, "hs_color"),
                   !.hass_state[1].xy_color = Attr(d1, "xy_color"),
                   !.hass_state[1].rgb_color = Attr(d1, "rgb_color")]

\* CTDevice._update_device_state; super() is the class after CTDevice in the
\* instance's method resolution order: RGBDevice for an RGBWDevice,
\* BrightnessDevice for a CTDevice
CT_update_device_state(dv, full_update) ==
    LET d1 == IF dv.kind = "RGBWDevice"
              THEN RGB_update_device_state(dv, full_update)
              ELSE Brightness_update_device_state(dv, full_update)
    IN  [d1 EXCEPT !.hass_state[1].color_temp = Attr(d1, "color_temp")]

\* RGBWDevice._update_device_state running the RGBDevice extraction as a
\* full update too
RGBW_update_device_state_overlay_full(dv, full_update) ==
    RGB_update_device_state(CT_update_device_state(dv, TRUE), TRUE)

\* RGBWDevice._update_device_state
RGBW_update_device_state(dv, full_update) ==
    RGB_update_device_state(CT_update_device_state(dv, TRUE), FALSE)

\* self._update_device_state(full_update), dispatched on the class
update_device_state(dv, full_update) ==
    CASE dv.kind = "OnOffDevice" -> OnOff_update_device_state(dv, full_update)
      [] dv.kind = "BrightnessDevice" ->
            Brightness_update_device_state(dv, full_update)
      [] dv.kind = "CTDevice" -> CT_update_device_state(dv, full_update)
      [] dv.kind = "RGBDevice" -> RGB_update_device_state(dv, full_update)
      [] dv.kind = "RGBWDevice" -> RGBW_update_device_state(dv, full_update)

\* async_update_state after its fetch returned hass_state_dict, up to the
\* await of _async_save_config
update_state_fetched(dv, hass_state_dict) ==
    update_config_states(
        update_device_state([dv EXCEPT !.hass_state_dict = hass_state_dict],
                            TRUE))

\* update_allowed not recording the time of an allowed update (line 132)
update_allowed_time_unrecorded(dv, t) ==
    IF dv.throttle_ms = None \/ dv.throttle_ms = Some(0)
    THEN [allowed |-> TRUE, dv |-> dv]
    ELSE IF StateEq(dv.config_state, dv.control_state)
    THEN [allowed |-> FALSE, dv |-> dv]
    ELSE IF t - dv.last_update < dv.throttle_ms[1]
    THEN [allowed |-> FALSE, dv |-> dv]
    ELSE [allowed |-> TRUE, dv |-> dv]

\* update_allowed without the test of the elapsed time (lines 128-130)
update_allowed_elapsed_dropped(dv, t) ==
    IF dv.throttle_ms = None \/ dv.throttle_ms = Some(0)
    THEN [allowed |-> TRUE, dv |-> dv]
    ELSE IF StateEq(dv.config_state, dv.control_state)
    THEN [allowed |-> FALSE, dv |-> dv]
    ELSE [allowed |-> TRUE, dv |-> [dv EXCEPT !.last_update = t]]

\* _async_update_allowed at time t: whether the update is allowed, and the
\* Device after the check
update_allowed(dv, t) ==
    IF dv.throttle_ms = None \/ dv.throttle_ms = Some(0)
    THEN [allowed |-> TRUE, dv |-> dv]
    ELSE IF StateEq(dv.config_state, dv.control_state)
    THEN [allowed |-> FALSE, dv |-> dv]
    ELSE IF t - dv.last_update < dv.throttle_ms[1]
    THEN [allowed |-> FALSE, dv |-> dv]
    ELSE [allowed |-> TRUE, dv |-> [dv EXCEPT !.last_update = t]]

\* _new_control_state carrying the whole effective state forward
new_control_state_copies_all(dv) == dv.config_state[1]

\* _new_control_state
new_control_state(dv) ==
    DeviceState([power_state |-> dv.config_state[1].power_state])

\* "if not self._control_state: self._control_state = self._new_control_state()"
EnsureControl(dv) ==
    IF dv.control_state = None
    THEN [dv EXCEPT !.control_state = Some(new_control_state(dv))]
    ELSE dv

\* OnOffDevice.set_transition_ms
set_transition_ms(dv, transition_ms) ==
    LET d1 == EnsureControl(dv)
        ms == IF transition_ms < d1.throttle_ms[1] THEN d1.throttle_ms[1]
              ELSE transition_ms
    IN  [d1 EXCEPT !.config_state[1].transition_seconds = Some(ms)]

\* OnOffDevice.set_transition_seconds
set_transition_seconds(dv, transition_seconds) ==
    set_transition_ms(dv, transition_seconds)

\* OnOffDevice.turn_on / turn_off
turn_on(dv) ==
    [dv EXCEPT !.control_state = Some(DeviceState(
        [power_state |-> Some(TRUE),
         transition_seconds |-> Some(dv.default_transition)]))]

turn_off(dv) ==
    [dv EXCEPT !.control_state = Some(DeviceState(
        [power_state |-> Some(FALSE),
         transition_seconds |-> Some(dv.default_transition)]))]

\* BrightnessDevice.set_brightness / set_effect / set_flash
set_brightness(dv, brightness) ==
    [EnsureControl(dv) EXCEPT
        !.control_state[1].brightness = Some(clamp(brightness, 0, 255))]

set_effect(dv, effect) ==
    [EnsureControl(dv) EXCEPT !.control_state[1].effect = Some(effect)]

Brightness_set_flash(dv, flash) ==
    [EnsureControl(dv) EXCEPT !.control_state[1].flash = Some(flash)]

\* CTDevice.set_color_temperature
set_color_temperature(dv, color_temperature) ==
    [EnsureControl(dv) EXCEPT
        !.control_state[1].color_temp = Some(color_temperature)]

\* RGBDevice.set_hue_sat / set_xy / set_rgb / set_flash
set_hue_sat(dv, hue, sat) ==
    [EnsureControl(dv) EXCEPT
        !.control_state[1].hue_saturation = Some(<<hue, sat>>)]

set_xy(dv, x, y) ==
    [EnsureControl(dv) EXCEPT !.control_state[1].xy_color = Some(<<x, y>>)]

set_rgb(dv, r, g, b) ==
    [EnsureControl(dv) EXCEPT !.control_state[1].rgb_color = Some(<<r, g, b>>)]

RGB_set_flash(dv, flash) == set_hue_sat(Brightness_set_flash(dv, flash), 0, 0)

\* self.set_flash(flash), dispatched on the class
set_flash(dv, flash) ==
    IF IsRGB(dv.kind) THEN RGB_set_flash(dv, flash)
    ELSE Brightness_set_flash(dv, flash)

(***************************************************************************)
(* The environment: the entity at Home Assistant, the stored light         *)
(* configuration, and the inputs of the calls.                             *)
(***************************************************************************)
\* supported_color_modes of the entities a behaviour may be about: one for
\* each class, and the two whose Devices have the base operations only
EntityModes ==
    {{"onoff"}, {"brightness"}, {"color_temp"}, {"hs"}, {"hs", "color_temp"}}

BaseEntities == {{"onoff"}, {"brightness"}}

NoAttributes ==
    [brightness |-> None, color_temp |-> None, hs_color |-> None,
     xy_color |-> None, rgb_color |-> None]

AllAttributes ==
    [brightness |-> Some(200), color_temp |-> Some(350),
     hs_color |-> Some(<<120, 90>>), xy_color |-> Some(<<3, 4>>),
     rgb_color |-> Some(<<9, 8, 7>>)]

\* what async_get_entity_state may return for an entity with these modes:
\* the entity changes at Home Assistant at any time, so a fetch returns any
\* of these
HassDict(state, attrs, ms) ==
    [state |-> state,
     attributes |-> [n \in DOMAIN attrs \cup {"supported_color_modes"} |->
                        IF n = "supported_color_modes" THEN ms
                        ELSE attrs[n]]]

PlatformStates(ms) ==
    {HassDict("on", AllAttributes, ms),
     HassDict("off", NoAttributes, ms),
     HassDict("unavailable", NoAttributes, ms)}

\* a "hass_state" block persisted by an earlier run of the program
PriorBlock ==
    DeviceState([power_state |-> Some(FALSE), reachable |-> Some(TRUE),
                 brightness |-> Some(50)])

\* the light configurations async_get_light_config may return: "throttle"
\* 0, 1000 or not set
Unthrottled == [throttle |-> Some(0), hass_state |-> None]
ThrottledConfig == [throttle |-> Some(1000), hass_state |-> Some(PriorBlock)]
NoThrottleKey == [throttle |-> None, hass_state |-> None]

StoredConfigs == {Unthrottled, ThrottledConfig, NoThrottleKey}

BrightnessInputs == {300}
TransitionMsInputs == {200}
TransitionSecondsInputs == {2000}
FlashInputs == {"long"}
EffectInputs == {"colorloop"}
ColorTemperatureInputs == {250}
HueSatInputs == {<<200, 50>>}
XYInputs == {<<1, 2>>}
RgbInputs == {<<10, 20, 30>>}

\* entities whose Devices are Full-Color-capable: an RGBDevice, an RGBWDevice
ColorEntities == {{"hs"}, {"hs", "color_temp"}}

(***************************************************************************)
(* The history the properties read.  hist records, of the first Device     *)
(* constructed, what its present state does not show: how far a sequence   *)
(* set_flash, async_execute, async_update_state has come, whether its      *)
(* refreshes followed one another, and when it was constructed and its     *)
(* last platform call authorised.  An observation is an option: one that   *)
(* starts at None is not kept and stays None.                              *)
(***************************************************************************)
SetterNames ==
    {"set_transition_ms", "set_transition_seconds", "turn_on", "turn_off",
     "set_brightness", "set_effect", "set_flash", "set_color_temperature",
     "set_hue_sat", "set_xy", "set_rgb"}

\* the step is a call of a write operation of Device d
SetterStep(d) == op'[2] = d /\ op'[1] \in SetterNames

\* the step is a step of an async_execute of Device d
ExecuteStep(d) == op' = <<"async_execute", d>> \/ epc'[d] # epc[d]

\* the step runs lines 141-146 of a refresh of Device d up to the await of
\* the persist: the fetch returned, the extraction and the merge ran
RefreshMerge(d) ==
    \/ rpc[d] = "fetch" /\ rpc'[d] = "save"
    \/ \E c \in DOMAIN callers :
        /\ callers[c].pc = "update_fetch"
        /\ callers'[c].pc = "update_save"
        /\ callers[c].dev = Some(d)

\* how far the sequence has come with nothing else done on the Device in
\* between: 1 set_flash called; 2 async_execute called, allowed, its
\* platform call made; 3 the platform call returned, the merge ran; 4 the
\* persist returned, async_execute ended; 5 async_update_state called;
\* 6 its fetch returned, the extraction and the merge ran.  0 otherwise.
ObserveFlash(stage, d) ==
    IF op' = <<"set_flash", d>> THEN 1
    ELSE IF SetterStep(d) THEN 0
    ELSE IF op' = <<"async_execute", d>>
    THEN (IF stage = 1 /\ epc'[d] = "send" THEN 2 ELSE 0)
    ELSE IF epc'[d] # epc[d]
    THEN (IF stage = 2 /\ epc'[d] = "save" THEN 3
          ELSE IF stage = 3 /\ op' = <<"resumed", d>> THEN 4
          ELSE 0)
    ELSE IF rpc'[d] # rpc[d]
    THEN (IF stage = 4 /\ rpc'[d] = "fetch" THEN 5
          ELSE IF stage = 5 /\ rpc'[d] = "save" THEN 6
          ELSE 0)
    ELSE stage

\* the refreshes that ran with no write operation and no step of an execute
\* since: 0 none; 1 one or more; 2 two or more, the last of which fetched
\* the attribute mapping the one before it fetched
ObserveRefreshes(n, d) ==
    IF SetterStep(d) \/ ExecuteStep(d) THEN 0
    ELSE IF RefreshMerge(d)
    THEN (IF n >= 1 /\ devices'[d].hass_state_dict = devices[d].hass_state_dict
          THEN 2 ELSE 1)
    ELSE n

\* the time __init__ of Device d ran; -1 before
ObserveBuilt(t, d) ==
    IF Len(devices) < d /\ Len(devices') >= d THEN now ELSE t

\* the times the throttle check authorised the last two platform calls of
\* Device d, the earlier first; -1 for a call not yet made
ObserveSent(t, d) ==
    IF op' = <<"async_execute", d>> /\ epc'[d] = "send"
    THEN <<t[2], now>> ELSE t

Unobserved ==
    [flash |-> None, refreshes |-> None, built |-> None, sent |-> None]

Monitor ==
    hist' =
        [flash |-> IF hist.flash = None THEN None
                   ELSE Some(ObserveFlash(hist.flash[1], 1)),
         refreshes |-> IF hist.refreshes = None THEN None
                       ELSE Some(ObserveRefreshes(hist.refreshes[1], 1)),
         built |-> IF hist.built = None THEN None
                   ELSE Some(ObserveBuilt(hist.built[1], 1)),
         sent |-> IF hist.sent = None THEN None
                  ELSE Some(ObserveSent(hist.sent[1], 1))]

(***************************************************************************)
(* async_get_device.  callers[c] is one call of it: at "idle" before it is *)
(* made, at the name of an await while suspended there, and at "done" or   *)
(* "raised" after it returned or raised.                                   *)
(***************************************************************************)
Caller(pc) ==
    [pc |-> pc, config |-> None, dev |-> None, result |-> None]

\* the Devices async_get_device has returned to some caller
Returned == {callers[c].result[1] : c \in {x \in DOMAIN callers :
                                              callers[x].result # None}}

\* lines 389-392: the cache lookup, then the await of the light id
GetDeviceCall(c) ==
    /\ callers[c].pc = "idle"
    /\ callers' = [callers EXCEPT ![c] =
            IF cache # None
            THEN [Caller("done") EXCEPT !.result = cache]
            ELSE Caller("light_id")]
    /\ op' = <<"async_get_device", c>>
    /\ UNCHANGED <<now, modes, devices, cache, sched, rpc, epc, storage, nfetch>>
    /\ Monitor

\* line 392 returns; line 393 awaits the light's config
GetDeviceLightId(c) ==
    /\ callers[c].pc = "light_id"
    /\ \E ok \in BOOLEAN :
        callers' = [callers EXCEPT ![c].pc = IF ok THEN "config" ELSE "raised"]
    /\ op' = <<"resumed", c>>
    /\ UNCHANGED <<now, modes, devices, cache, sched, rpc, epc, storage, nfetch>>
    /\ Monitor

\* line 393 returns the stored config; line 395 calls async_get_hass_state
GetDeviceConfig(c) ==
    /\ callers[c].pc = "config"
    /\ \E ok \in BOOLEAN :
        IF ok
        THEN /\ callers' = [callers EXCEPT ![c].pc = "hass",
                                           ![c].config = Some(storage)]
             /\ nfetch' = nfetch + 1
        ELSE /\ callers' = [callers EXCEPT ![c].pc = "raised"]
             /\ nfetch' = nfetch
    /\ op' = <<"resumed", c>>
    /\ UNCHANGED <<now, modes, devices, cache, sched, rpc, epc, storage>>
    /\ Monitor

\* line 395 returns; lines 396-472 pick the class and construct the Device;
\* line 473 calls async_update_state, which awaits its own fetch (line 141)
GetDeviceHass(c) ==
    /\ callers[c].pc = "hass"
    /\ \E ok \in BOOLEAN, h \in PlatformStates(modes) :
        IF ok /\ ~InitRaises(callers[c].config[1])
        THEN /\ devices' = Append(devices,
                    NewDevice(InferKind(h.attributes.supported_color_modes),
                              callers[c].config[1], h, now))
             /\ callers' = [callers EXCEPT ![c].pc = "update_fetch",
                                           ![c].dev = Some(Len(devices) + 1)]
             /\ nfetch' = nfetch + 1
             /\ op' = <<"resumed", c>>
        ELSE /\ callers' = [callers EXCEPT ![c].pc = "raised"]
             /\ UNCHANGED <<devices, nfetch>>
             /\ op' = <<IF ok THEN "init_raised" ELSE "resumed", c>>
    /\ UNCHANGED <<now, modes, cache, sched, rpc, epc, storage>>
    /\ Monitor

\* line 141 returns inside line 473; lines 145-146 run up to the await of
\* _async_save_config (line 109)
GetDeviceUpdateFetched(c) ==
    /\ callers[c].pc = "update_fetch"
    /\ LET d == callers[c].dev[1] IN
       \E ok \in BOOLEAN, h \in PlatformStates(modes) :
        IF ok
        THEN /\ devices' = [devices EXCEPT ![d] =
                                update_state_fetched(devices[d], h)]
             /\ callers' = [callers EXCEPT ![c].pc = "update_save"]
        ELSE /\ callers' = [callers EXCEPT ![c].pc = "raised"]
             /\ UNCHANGED devices
    /\ op' = <<"resumed", c>>
    /\ UNCHANGED <<now, modes, cache, sched, rpc, epc, storage, nfetch>>
    /\ Monitor

\* GetDeviceUpdateSaved registering the Device although the persist raised
GetDeviceUpdateSaved_registers_anyway(c) ==
    /\ callers[c].pc = "update_save"
    /\ LET d == callers[c].dev[1] IN
       \E ok \in BOOLEAN :
        /\ storage' = IF ok THEN devices[d].config ELSE storage
        /\ sched' = Append(sched, d)
        /\ cache' = Some(d)
        /\ callers' = [callers EXCEPT ![c].pc = IF ok THEN "done" ELSE "raised",
                                      ![c].result = IF ok THEN Some(d) ELSE None]
    /\ op' = <<"resumed", c>>
    /\ UNCHANGED <<now, modes, devices, rpc, epc,
                   nfetch>>
    /\ Monitor

\* line 109 returns inside line 473; lines 475-477 register the Device
GetDeviceUpdateSaved(c) ==
    /\ callers[c].pc = "update_save"
    /\ LET d == callers[c].dev[1] IN
       \E ok \in BOOLEAN :
        IF ok
        THEN /\ storage' = devices[d].config
             /\ sched' = Append(sched, d)
             /\ cache' = Some(d)
             /\ callers' = [callers EXCEPT ![c].pc = "done",
                                           ![c].result = Some(d)]
        ELSE /\ callers' = [callers EXCEPT ![c].pc = "raised"]
             /\ UNCHANGED <<storage, sched, cache>>
    /\ op' = <<"resumed", c>>
    /\ UNCHANGED <<now, modes, devices, rpc, epc,
                   nfetch>>
    /\ Monitor

(***************************************************************************)
(* The scheduled refresh: add_scheduler(device_obj.async_update_state,     *)
(* 5000) runs async_update_state() of every registered Device.             *)
(***************************************************************************)
Registered == {sched[i] : i \in DOMAIN sched}

\* async_update_state is called and awaits its fetch (line 141)
RefreshCall(d) ==
    /\ d \in Registered
    /\ rpc[d] = "idle"
    /\ rpc' = [rpc EXCEPT ![d] = "fetch"]
    /\ op' = <<"async_update_state", d>>
    /\ UNCHANGED <<now, modes, devices, cache, sched, callers, epc,
                   storage, nfetch>>
    /\ Monitor

\* RefreshFetched dropping the platform state when the fetch raises
RefreshFetched_state_dropped(d) ==
    /\ rpc[d] = "fetch"
    /\ \E ok \in BOOLEAN, h \in PlatformStates(modes) :
        IF ok
        THEN /\ devices' = [devices EXCEPT ![d] =
                                update_state_fetched(devices[d], h)]
             /\ rpc' = [rpc EXCEPT ![d] = "save"]
             /\ op' = <<"resumed", d>>
        ELSE /\ rpc' = [rpc EXCEPT ![d] = "idle"]
             /\ devices' = [devices EXCEPT ![d].hass_state = None]
             /\ op' = <<"update_fetch_raised", d>>
    /\ UNCHANGED <<now, modes, cache, sched, callers, epc, storage, nfetch>>
    /\ Monitor

\* the fetch returns or raises; on return lines 141-146 run up to the await
\* of _async_save_config
RefreshFetched(d) ==
    /\ rpc[d] = "fetch"
    /\ \E ok \in BOOLEAN, h \in PlatformStates(modes) :
        IF ok
        THEN /\ devices' = [devices EXCEPT ![d] =
                                update_state_fetched(devices[d], h)]
             /\ rpc' = [rpc EXCEPT ![d] = "save"]
             /\ op' = <<"resumed", d>>
        ELSE /\ rpc' = [rpc EXCEPT ![d] = "idle"]
             /\ devices' = devices
             /\ op' = <<"update_fetch_raised", d>>
    /\ UNCHANGED <<now, modes, cache, sched, callers, epc, storage, nfetch>>
    /\ Monitor

\* _async_save_config returns or raises; async_update_state ends
RefreshSaved(d) ==
    /\ rpc[d] = "save"
    /\ \E ok \in BOOLEAN :
        storage' = IF ok THEN devices[d].config ELSE storage
    /\ rpc' = [rpc EXCEPT ![d] = "idle"]
    /\ op' = <<"resumed", d>>
    /\ UNCHANGED <<now, modes, devices, cache, sched, callers, epc, nfetch>>
    /\ Monitor

(***************************************************************************)
(* async_execute.                                                          *)
(***************************************************************************)
\* async_execute from its call to its first suspension or its return:
\* line 179-181 when denied; line 183-190 up to the await of the platform
\* call; or, with no control state, lines 192-193 up to the await of
\* _async_save_config.  epc[d] = "send" is the async_turn_on or
\* async_turn_off call in flight: the step from "idle" to "send" makes it.
ExecuteCall(d) ==
    /\ d \in Returned
    /\ epc[d] = "idle"
    /\ LET chk == update_allowed(devices[d], now)
           dv == chk.dv
       IN  IF ~chk.allowed
           THEN /\ devices' = [devices EXCEPT ![d] =
                                    [dv EXCEPT !.control_state = None]]
                /\ UNCHANGED epc
           ELSE IF dv.control_state # None
           THEN /\ devices' = [devices EXCEPT ![d] = dv]
                /\ epc' = [epc EXCEPT ![d] = "send"]
           ELSE /\ devices' = [devices EXCEPT ![d] = update_config_states(dv)]
                /\ epc' = [epc EXCEPT ![d] = "save"]
    /\ op' = <<"async_execute", d>>
    /\ UNCHANGED <<now, modes, cache, sched, callers, rpc, storage,
                   nfetch>>
    /\ Monitor

\* async_turn_on / async_turn_off returns or raises; on return line 193
\* runs up to the await of _async_save_config
ExecuteSent(d) ==
    /\ epc[d] = "send"
    /\ \E ok \in BOOLEAN :
        IF ok
        THEN /\ devices' = [devices EXCEPT ![d] =
                                update_config_states(devices[d])]
             /\ epc' = [epc EXCEPT ![d] = "save"]
             /\ op' = <<"resumed", d>>
        ELSE /\ epc' = [epc EXCEPT ![d] = "idle"]
             /\ devices' = devices
             /\ op' = <<"execute_send_raised", d>>
    /\ UNCHANGED <<now, modes, cache, sched, callers, rpc, storage, nfetch>>
    /\ Monitor

\* _async_save_config returns or raises; on return line 194 clears the
\* control state
ExecuteSaved(d) ==
    /\ epc[d] = "save"
    /\ \E ok \in BOOLEAN :
        IF ok
        THEN /\ storage' = devices[d].config
             /\ devices' = [devices EXCEPT ![d].control_state = None]
             /\ op' = <<"resumed", d>>
        ELSE /\ UNCHANGED <<storage, devices>>
             /\ op' = <<"execute_save_raised", d>>
    /\ epc' = [epc EXCEPT ![d] = "idle"]
    /\ UNCHANGED <<now, modes, cache, sched, callers, rpc, nfetch>>
    /\ Monitor

(***************************************************************************)
(* The write operations, called on a Device async_get_device returned.     *)
(***************************************************************************)
Setter(d, name, after) ==
    /\ d \in Returned
    /\ devices' = [devices EXCEPT ![d] = after]
    /\ op' = <<name, d>>
    /\ UNCHANGED <<now, modes, cache, sched, callers, rpc, epc, storage, nfetch>>
    /\ Monitor

SetTransitionMs(d) ==
    \E ms \in TransitionMsInputs :
        Setter(d, "set_transition_ms", set_transition_ms(devices[d], ms))

SetTransitionSeconds(d) ==
    \E sec \in TransitionSecondsInputs :
        Setter(d, "set_transition_seconds",
               set_transition_seconds(devices[d], sec))

TurnOn(d) == Setter(d, "turn_on", turn_on(devices[d]))

TurnOff(d) == Setter(d, "turn_off", turn_off(devices[d]))

SetBrightness(d) ==
    /\ IsBrightness(devices[d].kind)
    /\ \E b \in BrightnessInputs :
        Setter(d, "set_brightness", set_brightness(devices[d], b))

SetEffect(d) ==
    /\ IsBrightness(devices[d].kind)
    /\ \E e \in EffectInputs :
        Setter(d, "set_effect", set_effect(devices[d], e))

SetFlash(d) ==
    /\ IsBrightness(devices[d].kind)
    /\ \E v \in FlashInputs :
        Setter(d, "set_flash", set_flash(devices[d], v))

SetColorTemperature(d) ==
    /\ IsCT(devices[d].kind)
    /\ \E ct \in ColorTemperatureInputs :
        Setter(d, "set_color_temperature",
               set_color_temperature(devices[d], ct))

SetHueSat(d) ==
    /\ IsRGB(devices[d].kind)
    /\ \E hs \in HueSatInputs :
        Setter(d, "set_hue_sat", set_hue_sat(devices[d], hs[1], hs[2]))

SetXY(d) ==
    /\ IsRGB(devices[d].kind)
    /\ \E xy \in XYInputs :
        Setter(d, "set_xy", set_xy(devices[d], xy[1], xy[2]))

SetRgb(d) ==
    /\ IsRGB(devices[d].kind)
    /\ \E c \in RgbInputs :
        Setter(d, "set_rgb", set_rgb(devices[d], c[1], c[2], c[3]))

(***************************************************************************)
(* The environment's steps.                                                *)
(***************************************************************************)
\* the clock advances by TickMs, up to limit
Advance(limit) ==
    /\ now < limit
    /\ now' = now + TickMs
    /\ op' = <<"tick", 0>>
    /\ UNCHANGED <<modes, devices, cache, sched, callers, rpc, epc,
                   storage, nfetch>>
    /\ Monitor

\* the clock matters from the first construction of a throttled Device on:
\* __init__ reads it into _last_update, and only _async_update_allowed of a
\* Device with a throttle reads either
Tick ==
    /\ \E d \in DOMAIN devices :
            devices[d].throttle_ms \notin {None, Some(0)}
    /\ Advance(MaxTicks * TickMs)

\* the clock from before the construction on, for longer
Clock == Advance(MaxClockTicks * TickMs)

(***************************************************************************)
(* Specifications.                                                         *)
(***************************************************************************)
DeviceIds == 1 .. NCallers

\* before the first call of async_get_device: the entity, the stored light
\* configuration, and the observations kept
InitOf(ncallers, entities, configs, observed) ==
    /\ now = 0
    /\ modes \in entities
    /\ devices = <<>>
    /\ cache = None
    /\ sched = <<>>
    /\ callers = [c \in 1 .. ncallers |-> Caller("idle")]
    /\ rpc = [d \in DeviceIds |-> "idle"]
    /\ epc = [d \in DeviceIds |-> "idle"]
    /\ storage \in configs
    /\ nfetch = 0
    /\ op = <<"init", 0>>
    /\ hist = observed

InitWith(ncallers, entities) ==
    InitOf(ncallers, entities, StoredConfigs, Unobserved)

\* one call of async_get_device for an on/off or a dimmable entity, then
\* the operations of its Device
Init == InitWith(1, BaseEntities)

Factory ==
    \E c \in DOMAIN callers :
        \/ GetDeviceCall(c)
        \/ GetDeviceLightId(c)
        \/ GetDeviceConfig(c)
        \/ GetDeviceHass(c)
        \/ GetDeviceUpdateFetched(c)
        \/ GetDeviceUpdateSaved(c)

Refresh ==
    \E d \in DOMAIN devices :
        \/ RefreshCall(d)
        \/ RefreshFetched(d)
        \/ RefreshSaved(d)

Execute ==
    \E d \in DOMAIN devices :
        \/ ExecuteCall(d)
        \/ ExecuteSent(d)
        \/ ExecuteSaved(d)

Setters ==
    \E d \in DOMAIN devices :
        \/ SetTransitionMs(d)
        \/ SetTransitionSeconds(d)
        \/ TurnOn(d)
        \/ TurnOff(d)
        \/ SetBrightness(d)

Next ==
    \/ Factory
    \/ Refresh
    \/ Execute
    \/ Setters
    \/ Tick

Spec == Init /\ [][Next]_vars

\* concurrent calls of async_get_device for one entity
InitFactory == InitWith(NCallers, EntityModes)

NextFactory == Factory

SpecFactory == InitFactory /\ [][NextFactory]_vars

\* one call of async_get_device for an entity with any set of mode tags,
\* and the scheduled refreshes of its Device
InitInfer == InitWith(1, SUBSET ModeTags)

NextInfer ==
    \/ Factory
    \/ Refresh

SpecInfer == InitInfer /\ [][NextInfer]_vars

\* one call of async_get_device for a Full-Color-capable entity with no
\* throttle, then the refreshes and executes of its Device and the write
\* operations that stage power, flash and hue/saturation; the history of
\* the flash sequence and of the refreshes is kept
InitColor ==
    InitOf(1, ColorEntities, {Unthrottled},
           [Unobserved EXCEPT !.flash = Some(0), !.refreshes = Some(0)])

ColorSetters ==
    \E d \in DOMAIN devices :
        \/ TurnOn(d)
        \/ TurnOff(d)
        \/ SetFlash(d)
        \/ SetHueSat(d)

NextColor ==
    \/ Factory
    \/ Refresh
    \/ Execute
    \/ ColorSetters

SpecColor == InitColor /\ [][NextColor]_vars

\* one call of async_get_device for an entity of each class, then the write
\* operations of its Device, in any order, with no execute
InitSetters == InitOf(1, EntityModes, {Unthrottled, ThrottledConfig}, Unobserved)

AllSetters ==
    \E d \in DOMAIN devices :
        \/ TurnOn(d)
        \/ TurnOff(d)
        \/ SetBrightness(d)
        \/ SetEffect(d)
        \/ SetFlash(d)
        \/ SetColorTemperature(d)
        \/ SetHueSat(d)
        \/ SetXY(d)
        \/ SetRgb(d)

NextSetters ==
    \/ Factory
    \/ AllSetters

SpecSetters == InitSetters /\ [][NextSetters]_vars

\* one call of async_get_device, at any time, for an on/off entity with a
\* throttle of 1000 ms, then the refreshes, executes and write operations
\* of its Device while the clock runs; the times of the construction and
\* of the authorised platform calls are kept
InitThrottle ==
    InitOf(1, {{"onoff"}}, {ThrottledConfig},
           [Unobserved EXCEPT !.built = Some(-1), !.sent = Some(<<-1, -1>>)])

ThrottleSetters ==
    \E d \in DOMAIN devices :
        \/ TurnOn(d)
        \/ TurnOff(d)
        \/ SetTransitionMs(d)

NextThrottle ==
    \/ Factory
    \/ Refresh
    \/ Execute
    \/ ThrottleSetters
    \/ Clock

SpecThrottle == InitThrottle /\ [][NextThrottle]_vars

(***************************************************************************)
(* Properties.                                                             *)
(***************************************************************************)
\* the steps that run the merge of a Device (lines 92-108) with no step of
\* any task between the call of the operation (refresh or execute) and the
\* merge, so that the state before the step is the state just before the
\* operation but for _last_update: the return of the fetch of a refresh
\* called in the step before, the return of the platform call of an execute
\* called in the step before, the call of an execute with no control state,
\* and the return of the fetch of the factory's first refresh
MergeStep(d) ==
    \/ op = <<"async_update_state", d>> /\ rpc[d] = "fetch" /\ rpc'[d] = "save"
    \/ op = <<"async_execute", d>> /\ epc[d] = "send" /\ epc'[d] = "save"
    \/ op' = <<"async_execute", d>> /\ epc[d] = "idle" /\ epc'[d] = "save"
    \/ \E c \in DOMAIN callers :
        /\ callers[c].pc = "update_fetch"
        /\ callers'[c].pc = "update_save"
        /\ callers[c].dev = Some(d)

\* the value of field f in effectiveState before a step; before the first
\* merge it is the value persisted in the light's configuration
EffectiveBefore(d, f) ==
    IF devices[d].config_state = None
    THEN SavedValue(devices[d].config, f)
    ELSE devices[d].config_state[1][f]

\* C1 (merge priority): after every merge (a completed refresh, a non-denied
\* execute), every field of effectiveState is the platform's value if
\* present, else the pending command's if present, else the value the field
\* had in effectiveState just before.
C1_MergePriority ==
    [][\A d \in DOMAIN devices : MergeStep(d) =>
        \A f \in ALL_STATES :
            devices'[d].config_state[1][f] =
                IF devices'[d].hass_state[1][f] # None
                THEN devices'[d].hass_state[1][f]
                ELSE IF /\ devices[d].control_state # None
                        /\ devices[d].control_state[1][f] # None
                THEN devices[d].control_state[1][f]
                ELSE EffectiveBefore(d, f)]_vars

\* C2 (registry uniqueness): one Device is constructed for the entity, every
\* call returns it, and the registry maps the entity to no other.
C2_RegistryUnique ==
    /\ Len(devices) <= 1
    /\ cache \in {None, Some(1)}
    /\ \A c \in DOMAIN callers : callers[c].result \in {None, Some(1)}

\* C3 (one fetch, one registration): over all the calls of async_get_device
\* for the entity, the factory makes one async_get_entity_state call and one
\* add_scheduler registration.
C3_OneFetchOneRegistration ==
    /\ nfetch <= 1
    /\ Len(sched) <= 1
    /\ cache # None => nfetch = 1 /\ Len(sched) = 1

\* C4 (mutual exclusion): no refresh of a Device is suspended at its fetch
\* or its persist while an execute of the same Device is suspended at its
\* platform call or its persist.
C4_RefreshExecuteExclusive ==
    \A d \in DOMAIN devices :
        ~(rpc[d] \in {"fetch", "save"} /\ epc[d] \in {"send", "save"})

Throttled(d) == devices[d].throttle_ms \notin {None, Some(0)}

\* C5 (throttle): an execute of a Device with throttle T > 0 called less
\* than T ms after _last_update (the time of the last allowed execute)
\* makes no platform call, leaves effectiveState and _last_update as they
\* are, and ends with the pending command empty.
C5_ThrottleDenies ==
    [][\A d \in DOMAIN devices :
        (/\ op' = <<"async_execute", d>>
         /\ Throttled(d)
         /\ now - devices[d].last_update < devices[d].throttle_ms[1])
        => /\ epc'[d] = "idle"
           /\ devices'[d].config_state = devices[d].config_state
           /\ devices'[d].last_update = devices[d].last_update
           /\ devices'[d].control_state = None]_vars

\* a denied execute 500 ms after an allowed one that sent brightness 255
C5_Witness ==
    \E d \in DOMAIN devices :
        /\ op = <<"async_execute", d>>
        /\ epc[d] = "idle"
        /\ devices[d].throttle_ms = Some(1000)
        /\ devices[d].last_update > 0
        /\ now - devices[d].last_update > 0
        /\ now - devices[d].last_update < 1000
        /\ devices[d].control_state = None
        /\ devices[d].config_state[1].brightness = Some(255)

\* C6 (execute failure cleanup): after an execute whose platform call
\* failed has returned to its caller, the Device holds no pending command.
C6_FailedSendCleansUp ==
    \A d \in DOMAIN devices :
        op = <<"execute_send_raised", d>> => devices[d].control_state = None

\* C7 (refresh failure): a refresh whose fetch fails leaves the Device as
\* it was (platform state, raw attributes, pending command, effective state
\* and stored configuration) and issues no persist write.
C7_RefreshFailureRetains ==
    [][/\ \A d \in DOMAIN devices :
            (rpc[d] = "fetch" /\ rpc'[d] # "fetch")
            /\ op' = <<"update_fetch_raised", d>>
            => /\ devices'[d] = devices[d]
               /\ storage' = storage
               /\ rpc'[d] = "idle"
       /\ \A c \in DOMAIN callers :
            (callers[c].pc = "update_fetch" /\ callers'[c].pc = "raised")
            => devices' = devices /\ storage' = storage]_vars

\* a scheduled refresh failed at its fetch while a command was pending
C7_Witness ==
    \E d \in DOMAIN devices :
        /\ op = <<"update_fetch_raised", d>>
        /\ rpc[d] = "idle"
        /\ devices[d].control_state # None
        /\ devices[d].config_state # None

\* C8 (no-op suppression): an execute called with no pending command makes
\* no platform call and does not raise; when the throttle allows it, it
\* runs the merge and the persist; it leaves the pending command empty.
C8_NoOpExecute ==
    [][\A d \in DOMAIN devices :
        /\ (op' = <<"async_execute", d>> /\ devices[d].control_state = None)
           => /\ epc'[d] # "send"
              /\ devices'[d].control_state = None
              /\ update_allowed(devices[d], now).allowed
                 => /\ epc'[d] = "save"
                    /\ devices'[d].config_state =
                           update_config_states(devices[d]).config_state
        \* the execute called in the step before went from its call to the
        \* persist: it had no pending command; it does not raise
        /\ (op = <<"async_execute", d>> /\ epc[d] = "save")
           => op' # <<"execute_save_raised", d>>]_vars

\* the variant the precedence of the specification gives a set of mode tags
PrecedenceKind(S) ==
    LET color == {"hs", "xy", "rgb", "rgbw", "rgbww"}
        temp_or_white == {"color_temp", "rgbw", "rgbww", "white"}
    IN  IF S \cap color # {} /\ S \cap temp_or_white # {} THEN "RGBWDevice"
        ELSE IF S \cap color # {} THEN "RGBDevice"
        ELSE IF "color_temp" \in S THEN "CTDevice"
        ELSE IF "brightness" \in S THEN "BrightnessDevice"
        ELSE "OnOffDevice"

\* C9 (type inference): for every set of mode tags, the Device the factory
\* builds has, at its construction and ever after, the variant the
\* first-match precedence gives.
C9_TypeInference ==
    \A d \in DOMAIN devices : devices[d].kind = PrecedenceKind(modes)

\* a refreshed combined Device of an entity that reports white and hs only
C9_Witness ==
    \E d \in DOMAIN devices :
        /\ modes = {"white", "hs"}
        /\ devices[d].kind = "RGBWDevice"
        /\ devices[d].config_state # None
        /\ d \in Registered

\* C10 (setters stage only): set_transition_ms and set_transition_seconds
\* record the time in the pending command and leave effectiveState and
\* platformState as they are.
C10_TransitionStagedOnly ==
    [][\A d \in DOMAIN devices :
        op' \in {<<"set_transition_ms", d>>, <<"set_transition_seconds", d>>}
        => /\ devices'[d].control_state # None
           /\ devices'[d].control_state[1].transition_seconds # None
           /\ devices'[d].config_state = devices[d].config_state
           /\ devices'[d].hass_state = devices[d].hass_state]_vars

\* the fields of the pending command a write operation writes
Written(name, kind) ==
    CASE name \in {"turn_on", "turn_off"} ->
            {"power_state", "transition_seconds"}
      [] name \in {"set_transition_ms", "set_transition_seconds"} ->
            {"transition_seconds"}
      [] name = "set_brightness" -> {"brightness"}
      [] name = "set_effect" -> {"effect"}
      [] name = "set_flash" ->
            IF IsRGB(kind) THEN {"flash", "hue_saturation"} ELSE {"flash"}
      [] name = "set_color_temperature" -> {"color_temp"}
      [] name = "set_hue_sat" -> {"hue_saturation"}
      [] name = "set_xy" -> {"xy_color"}
      [] name = "set_rgb" -> {"rgb_color"}

\* C11 (accumulation): a write operation called while a pending command is
\* staged leaves every field it does not write as staged (it erases no
\* field staged earlier), and the fields it writes are staged after it.
\* (The fields set_transition_ms / set_transition_seconds write are the
\* subject of C10.)
C11_PendingAccumulates ==
    [][\A d \in DOMAIN devices :
        (SetterStep(d) /\ devices[d].control_state # None)
        => /\ devices'[d].control_state # None
           /\ \A f \in ALL_STATES \ Written(op'[1], devices[d].kind) :
                devices'[d].control_state[1][f] = devices[d].control_state[1][f]
           /\ op'[1] \notin {"set_transition_ms", "set_transition_seconds"}
              => \A f \in Written(op'[1], devices[d].kind) :
                    devices'[d].control_state[1][f] # None]_vars

\* C12 (flash forces white): after set_flash, then an allowed execute that
\* completed, then a refresh, with nothing else done on the Device in
\* between, the hue_sat accessor reads (0,0); stated for the refreshes in
\* which the platform reports no hue/saturation of its own.
C12_FlashForcesWhite ==
    (/\ hist.flash = Some(6)
     /\ devices[1].hass_state[1].hue_saturation = None)
    => devices[1].config_state[1].hue_saturation = Some(<<0, 0>>)

\* C13 (idempotent refresh): a refresh that follows a refresh with no write
\* operation and no execute in between, and fetches the attribute mapping
\* the one before fetched, leaves effectiveState as the one before left it
\* and has the same configuration value to persist.
C13_IdempotentRefresh ==
    [][(RefreshMerge(1) /\ hist'.refreshes = Some(2))
        => /\ devices'[1].config_state = devices[1].config_state
           /\ devices'[1].config = devices[1].config]_vars

\* the second of two such refreshes has merged, a command being staged
C13_Witness ==
    /\ hist.refreshes = Some(2)
    /\ rpc[1] = "save"
    /\ op = <<"resumed", 1>>
    /\ devices[1].control_state # None
    /\ devices[1].control_state[1].hue_saturation = Some(<<200, 50>>)
    /\ devices[1].hass_state[1].hue_saturation = None
    /\ devices[1].config_state[1].hue_saturation = Some(<<200, 50>>)

\* C14 (unthrottled devices): with a throttle that is not set or 0 the
\* constructor does not raise, and every execute of the Device is allowed:
\* with a pending command it makes the platform call, with none it goes on
\* to the merge.
C14_UnthrottledDevices ==
    [][/\ \A c \in DOMAIN callers :
            (/\ callers[c].pc = "hass"
             /\ callers[c].config[1].throttle \in {None, Some(0)})
            => op' # <<"init_raised", c>>
       /\ \A d \in DOMAIN devices :
            (/\ op' = <<"async_execute", d>>
             /\ devices[d].throttle_ms \in {None, Some(0)})
            => /\ devices[d].control_state # None => epc'[d] = "send"
               /\ devices[d].control_state = None => epc'[d] = "save"]_vars

TraitSetters ==
    {"set_brightness", "set_effect", "set_flash", "set_color_temperature",
     "set_hue_sat", "set_xy", "set_rgb"}

\* C15 (setter contract): after a trait setter the pending command holds
\* the fields the setter writes; every other field is as it was staged
\* before or, when no command was pending, is absent but for power_state,
\* which is that of effectiveState.
C15_SetterContract ==
    [][\A d \in DOMAIN devices :
        (op'[2] = d /\ op'[1] \in TraitSetters)
        => LET before == devices[d].control_state
               after == devices'[d].control_state
               W == Written(op'[1], devices[d].kind)
           IN  /\ after # None
               /\ \A f \in W : after[1][f] # None
               /\ \A f \in ALL_STATES \ W :
                    after[1][f] =
                        IF before # None THEN before[1][f]
                        ELSE IF f = "power_state"
                        THEN devices[d].config_state[1].power_state
                        ELSE None]_vars

\* set_color_temperature(250) called with no command pending on a combined
\* Device whose effective state holds a brightness and colors
C15_Witness ==
    /\ op = <<"set_color_temperature", 1>>
    /\ devices[1].kind = "RGBWDevice"
    /\ devices[1].config_state[1].brightness = Some(200)
    /\ devices[1].config_state[1].hue_saturation = Some(<<120, 90>>)
    /\ devices[1].control_state =
            Some(DeviceState([power_state |-> Some(TRUE),
                              color_temp |-> Some(250)]))

\* C16 (no-change denial): an execute of a Device with a throttle whose
\* pending command stages only values effectiveState already has is denied,
\* however long ago the last allowed execute was: no platform call is made,
\* _last_update stays, and the pending command is discarded.
C16_NoChangeDenied ==
    [][\A d \in DOMAIN devices :
        (/\ op' = <<"async_execute", d>>
         /\ Throttled(d)
         /\ devices[d].control_state # None
         /\ \A f \in ALL_STATES :
                devices[d].control_state[1][f] # None
                => devices[d].control_state[1][f] =
                        devices[d].config_state[1][f])
        => /\ epc'[d] = "idle"
           /\ devices'[d].last_update = devices[d].last_update
           /\ devices'[d].control_state = None]_vars

\* C17 (combined-variant extraction): the platformState of a refreshed
\* RGBWDevice has power_state and reachable as the CTDevice extraction
\* derives them from the fetched entity state, the RGBDevice overlay leaves
\* them as they are, and brightness, color_temp, hue_saturation, xy_color
\* and rgb_color are the fetched attributes, absent when not reported.
C17_CombinedExtraction ==
    \A d \in DOMAIN devices :
        (devices[d].kind = "RGBWDevice" /\ devices[d].hass_state # None)
        => LET dv == devices[d]
               hass == dv.hass_state[1]
               base == CT_update_device_state(dv, TRUE)
               overlay == RGB_update_device_state(base, FALSE)
           IN  /\ hass.power_state =
                    Some(dv.hass_state_dict.state = HASS_STATE_ON)
               /\ hass.reachable =
                    Some(dv.hass_state_dict.state # HASS_STATE_UNAVAILABLE)
               /\ base.hass_state[1].power_state = hass.power_state
               /\ base.hass_state[1].reachable = hass.reachable
               /\ overlay.hass_state[1].power_state = hass.power_state
               /\ overlay.hass_state[1].reachable = hass.reachable
               /\ hass.brightness = Attr(dv, "brightness")
               /\ hass.color_temp = Attr(dv, "color_temp")
               /\ hass.hue_saturation = Attr(dv, "hs_color")
               /\ hass.xy_color = Attr(dv, "xy_color")
               /\ hass.rgb_color = Attr(dv, "rgb_color")

\* a scheduled refresh of a combined Device fetched the light on with all
\* its attributes
C17_Witness ==
    \E d \in DOMAIN devices :
        /\ devices[d].kind = "RGBWDevice"
        /\ modes = {"hs", "color_temp"}
        /\ rpc[d] = "save"
        /\ devices[d].hass_state_dict.state = "on"
        /\ devices[d].hass_state[1].power_state = Some(TRUE)
        /\ devices[d].hass_state[1].color_temp = Some(350)
        /\ devices[d].hass_state[1].hue_saturation = Some(<<120, 90>>)
        /\ devices[d].hass_state[1].brightness = Some(200)

\* C18 (command spacing): the throttle checks that authorise two platform
\* calls of a Device with throttle T > 0 are at least T ms apart, and the
\* first is at least T ms after the construction of the Device;
\* _last_update never decreases, and changes only in an allowed execute.
C18_CommandSpacing ==
    [][/\ (1 \in DOMAIN devices /\ Throttled(1)) =>
            LET T == devices[1].throttle_ms[1]
                built == hist'.built[1]
                sent == hist'.sent[1]
            IN  /\ sent[2] >= 0 => sent[2] - built >= T
                /\ sent[1] >= 0 => sent[2] - sent[1] >= T
       /\ \A d \in DOMAIN devices :
            /\ devices'[d].last_update >= devices[d].last_update
            /\ devices'[d].last_update # devices[d].last_update
               => /\ op' = <<"async_execute", d>>
                  /\ epc'[d] \in {"send", "save"}]_vars

\* a Device constructed at 500 whose second platform call has just been
\* authorised, 1000 ms after the first
C18_Witness ==
    /\ hist.built = Some(500)
    /\ hist.sent = Some(<<1500, 2500>>)
    /\ op = <<"async_execute", 1>>
    /\ epc[1] = "send"
    /\ devices[1].last_update = 2500

\* power_state and reachable of the effective state of a Device are present
\* and are those of its platform state
PowerOfPlatform(dv) ==
    /\ dv.config_state # None
    /\ dv.hass_state # None
    /\ \A f \in {"power_state", "reachable"} :
        /\ dv.config_state[1][f] # None
        /\ dv.config_state[1][f] = dv.hass_state[1][f]

\* C19 (platform-owned power state): in every state, for every Device the
\* factory has returned, effectiveState.power_state and .reachable are
\* present and equal those of platformState, the state the last successful
\* refresh extracted; only the merge of a refresh changes them, so turn_on
\* or turn_off and an allowed execute do not.
C19_PlatformOwnedPower ==
    [][/\ \A d \in Returned : PowerOfPlatform(devices[d])
       /\ \A c \in DOMAIN callers :
            callers'[c].result # None
            => PowerOfPlatform(devices'[callers'[c].result[1]])
       /\ \A d \in DOMAIN devices :
            (/\ devices[d].config_state # None
             /\ \E f \in {"power_state", "reachable"} :
                    devices'[d].config_state[1][f] #
                        devices[d].config_state[1][f])
            => RefreshMerge(d)]_vars

\* turn_on was sent for a light that was off and the merge of the execute
\* has run: the power_state accessor still reads off
C19_Witness ==
    \E d \in Returned :
        /\ op = <<"resumed", d>>
        /\ epc[d] = "save"
        /\ rpc[d] = "idle"
        /\ devices[d].control_state # None
        /\ devices[d].control_state[1].power_state = Some(TRUE)
        /\ devices[d].config_state[1].power_state = Some(FALSE)
        /\ devices[d].config_state[1].transition_seconds = Some(400)

\* C20 (failed construction is not registered): a call of async_get_device
\* that fails at any of its awaits or in the constructor adds no registry
\* entry and no scheduler registration; the registry and the scheduler
\* change only when a call returns its Device, after the persist of the
\* initial refresh returned; a call that finds the registry empty starts the
\* construction from the light-id lookup.
C20_FailedNotRegistered ==
    [][/\ \A c \in DOMAIN callers :
            /\ (callers[c].pc # "raised" /\ callers'[c].pc = "raised")
               => cache' = cache /\ sched' = sched
            /\ (callers[c].pc = "idle" /\ callers'[c].pc # "idle"
                /\ cache = None)
               => callers'[c].pc = "light_id"
       /\ (cache' # cache \/ sched' # sched)
          => \E c \in DOMAIN callers :
                /\ callers[c].pc = "update_save"
                /\ callers'[c].pc = "done"
                /\ cache' = callers[c].dev
                /\ sched' = Append(sched, callers[c].dev[1])
                /\ devices[callers[c].dev[1]].config_state # None]_vars

\* the persist of the initial refresh of the first call raised: its Device
\* is in no registry, and the second call has started afresh
C20_Witness ==
    /\ callers[1].pc = "raised"
    /\ callers[1].dev # None
    /\ devices[callers[1].dev[1]].config_state # None
    /\ cache = None
    /\ sched = <<>>
    /\ callers[2].pc = "light_id"

====
